---- MODULE Spec2Model ----
(***************************************************************************)
(* A model of the news client: the article fetch client (fetchArticles),   *)
(* the summarization orchestrator (summarizeArticle) and the two views     *)
(* that drive them (NewsFeed, SavedArticles).                              *)
(*                                                                         *)
(* JavaScript values are tagged records, so that the truthiness tests,     *)
(* Array.isArray and property reads of the source are computed from the    *)
(* value and not assumed.                                                  *)
(***************************************************************************)
EXTENDS Integers, Sequences, FiniteSets, TLC

VARIABLES
    now,           \* Date.now(), in milliseconds
    fetches,       \* the fetchArticles calls made so far, in call order
    calls,         \* the summarizeArticle calls made so far, in call order
    localStorage,  \* window.localStorage: the keys set, with their values
    nhostToken,    \* what nhost.auth.getAccessToken() returns
    signOuts,      \* the handleSignOut invocations made so far, in call order
    view,          \* the mounted page: "NewsFeed", "SavedArticles", "Login"
                   \* or "none"
    articles,      \* useState: the article list of the view
    isLoading,     \* useState: the loading flag of the view, the updates queued
                   \* for it applied
    screen,        \* what the browser shows of the view: "spinner", "page"
    selectedCategory,  \* useState: the category filter of the news feed
    toasts,        \* the notifications shown, in order; a toast id is its index
    handlers,      \* the handleSummarizeArticle invocations, one per call
    clicks         \* how many buttons the user has clicked

authVars == <<localStorage, nhostToken, signOuts>>
viewVars == <<view, articles, isLoading, screen, selectedCategory, toasts, handlers, clicks>>
vars == <<now, fetches, calls, authVars, viewVars>>

(***************************************************************************)
(* Bounds of the model.                                                    *)
(***************************************************************************)
MaxItems == 2      \* longest article array a feed response carries
MaxNow == 2        \* last clock value
MaxClicks == 3     \* how many buttons the user clicks
MaxWords == 2      \* most words in a text given to the sentiment classifier
MaxSignOuts == 3   \* most clicks on Sign out
MaxFreeCase == 4   \* longest text tried in every casing of its letters

(***************************************************************************)
(* JavaScript values.                                                      *)
(***************************************************************************)
JUndef == [t |-> "undef"]
JNull == [t |-> "null"]
JStr(s) == [t |-> "str", s |-> s]
JNum(n) == [t |-> "num", n |-> n]
JBool(b) == [t |-> "bool", b |-> b]
JArr(a) == [t |-> "arr", a |-> a]
JObj(o) == [t |-> "obj", o |-> o]

\* The empty object {}.
NoFields == [k \in {} |-> JUndef]

\* Array.isArray(v)
IsArray(v) == v.t = "arr"

\* ToBoolean(v): undefined, null, "", 0 and false are falsy, all else truthy.
Truthy(v) ==
    CASE v.t = "undef" -> FALSE
      [] v.t = "null" -> FALSE
      [] v.t = "str" -> v.s # ""
      [] v.t = "num" -> v.n # 0
      [] v.t = "bool" -> v.b
      [] OTHER -> TRUE

\* a || b
Or(a, b) == IF Truthy(a) THEN a ELSE b

\* v.k throws a TypeError exactly when v is null or undefined.
CanRead(v) == v.t \notin {"undef", "null"}

\* v.k for a readable v: the property of an object, undefined on an array
\* (a JSON array has no named property) or a primitive.
Prop(v, k) ==
    IF v.t = "obj" /\ k \in DOMAIN v.o THEN v.o[k] ELSE JUndef

\* { ...v, <the properties of over> }: over's keys win. Only objects are
\* spread in the modelled inputs.
Spread(v, over) ==
    JObj([k \in DOMAIN v.o \cup DOMAIN over |->
            IF k \in DOMAIN over THEN over[k] ELSE v.o[k]])

(***************************************************************************)
(* fetchArticles                                                           *)
(***************************************************************************)
OptionKeys == {"category", "limit", "offset"}

\* n.toString() of a number, the string itself otherwise (append coerces).
ParamValue(v) == IF v.t = "num" THEN ToString(v.n) ELSE v.s

\* The URLSearchParams built from the options: one append per truthy option,
\* in the order category, limit, offset.
QueryParams(options) ==
    LET opt(k) == IF k \in DOMAIN options THEN options[k] ELSE JUndef
        one(k) == IF Truthy(opt(k)) THEN <<(<<k, ParamValue(opt(k))>>)>> ELSE <<>>
    IN one("category") \o one("limit") \o one("offset")

\* URLSearchParams.toString(): name=value pairs joined by "&" (the modelled
\* values need no percent-encoding).
RECURSIVE QueryString(_)
QueryString(params) ==
    IF params = <<>> THEN ""
    ELSE LET p == Head(params)
             rest == QueryString(Tail(params))
         IN p[1] \o "=" \o p[2] \o (IF Tail(params) = <<>> THEN "" ELSE "&" \o rest)

ArticleEndpoint == "https://n8n-dev.subspace.money/webhook/article"

RequestUrl(options) ==
    LET queryString == QueryString(QueryParams(options))
    IN ArticleEndpoint \o (IF queryString # "" THEN "?" \o queryString ELSE "")

\* The synthesized identifier `${index}-${Date.now()}` (index from 0).
IndexId(index, t) == JStr(ToString(index) \o "-" \o ToString(t))

\* The synthesized identifier `single-${Date.now()}`.
SingleId(t) == JStr("single-" \o ToString(t))

\* MapArticle with the content of the article kept instead of overwritten.
MapArticleKeepsContent(article, index, t) ==
    Spread(article, [id |-> Or(Prop(article, "id"), IndexId(index, t))])

\* One element of data.data.map(...): the article with its id, or the
\* synthesized one, and content overwritten by description.
MapArticle(article, index, t) ==
    Spread(article, [id |-> Or(Prop(article, "id"), IndexId(index, t)),
                     content |-> Prop(article, "description")])

\* The first branch: data.data is an array. clock[i] is Date.now() as read
\* for element i.
NormalizeDataArray(items, clock) ==
    [i \in 1..Len(items) |-> MapArticle(items[i], i - 1, clock[i])]

\* NormalizeSingle with the identifier always synthesized.
NormalizeSingleNewId(article, t) ==
    Spread(article, [id |-> SingleId(t),
                     content |-> Prop(article, "description")])

\* The third branch: data.data is a single article.
NormalizeSingle(article, t) ==
    Spread(article, [id |-> Or(Prop(article, "id"), SingleId(t)),
                     content |-> Prop(article, "description")])

\* Normalize with a bare array mapped like data.data.
NormalizeMapsBareArray(data, clock) ==
    IF ~CanRead(data) THEN [threw |-> TRUE, result |-> <<>>]
    ELSE IF IsArray(data)
      THEN [threw |-> FALSE,
            result |-> [i \in 1..Len(data.a) |-> MapArticle(data.a[i], i - 1, 0)]]
    ELSE [threw |-> FALSE, result |-> <<data>>]

\* The response normalization of a parsed payload: [threw, result]. Reading
\* data.data of a null payload throws a TypeError, which the catch block
\* logs and re-throws.
Normalize(data, clock) ==
    IF ~CanRead(data) THEN [threw |-> TRUE, result |-> <<>>]
    ELSE LET dd == Prop(data, "data") IN
         IF Truthy(dd) /\ IsArray(dd)
           THEN [threw |-> FALSE, result |-> NormalizeDataArray(dd.a, clock)]
         ELSE IF IsArray(data)
           THEN [threw |-> FALSE, result |-> data.a]
         ELSE IF Truthy(dd) /\ ~IsArray(dd)
           THEN [threw |-> FALSE, result |-> <<NormalizeSingle(dd, clock[1])>>]
         ELSE [threw |-> FALSE, result |-> <<data>>]

\* A fetchArticles call between its GET and the arrival of the response.
NewFetch(options) ==
    [options |-> options,
     url |-> RequestUrl(options),
     params |-> QueryParams(options),
     gets |-> 1,
     pc |-> "pending",
     resp |-> [kind |-> "none", status |-> 0, data |-> JUndef],
     result |-> <<>>]

\* SettleFetch without the test of response.ok.
SettleFetchIgnoresStatus(call, resp, clock) ==
    LET n == Normalize(resp.data, clock)
        ok == resp.kind # "reject" /\ ~n.threw
    IN [call EXCEPT !.pc = IF ok THEN "returned" ELSE "threw",
                    !.resp = resp,
                    !.result = IF ok THEN n.result ELSE <<>>]

\* The call once its response has arrived. A rejected fetch (transport
\* error) and a non-ok status throw; an ok response is normalized.
SettleFetch(call, resp, clock) ==
    LET n == Normalize(resp.data, clock)
        ok == resp.kind = "ok" /\ ~n.threw
    IN [call EXCEPT !.pc = IF ok THEN "returned" ELSE "threw",
                    !.resp = resp,
                    !.result = IF ok THEN n.result ELSE <<>>]

(***************************************************************************)
(* authService                                                             *)
(***************************************************************************)
TokenKey == "nhost-jwt-token"
ExpiryKey == "nhost-token-expires"

\* localStorage.getItem(key): null for a key that is not set.
GetItem(storage, key) == IF key \in DOMAIN storage THEN JStr(storage[key]) ELSE JNull

\* authService.removeToken(): both keys are removed.
removeToken(storage) ==
    [k \in DOMAIN storage \ {TokenKey, ExpiryKey} |-> storage[k]]

\* The SIGNED_IN listener of the nhost client: the access token of the
\* session and the time it expires are stored.
StoreSession(storage, token, expiry) ==
    [k \in DOMAIN storage \cup {TokenKey, ExpiryKey} |->
        IF k = TokenKey THEN token
        ELSE IF k = ExpiryKey THEN expiry
        ELSE storage[k]]

\* The stored token and the page after handleSignOut has gone on from its
\* await: "ok" is a result without an error, "error" a result with one,
\* "throw" a rejected signOut.
AfterSignOutIgnoresError(storage, page, outcome) ==
    [storage |-> removeToken(storage), view |-> "Login"]

\* The stored token and the page after handleSignOut has gone on from its
\* await: the token is removed and /login entered after a result without
\* an error; a result with an error and a rejected signOut are only logged.
AfterSignOut(storage, page, outcome) ==
    IF outcome = "ok"
      THEN [storage |-> removeToken(storage), view |-> "Login"]
      ELSE [storage |-> storage, view |-> page]

\* authService.getToken(): the stored token if there is one, nhost's access
\* token otherwise.
GetToken(storage, accessToken) ==
    LET token == GetItem(storage, TokenKey)
    IN IF Truthy(token) THEN token ELSE accessToken

(***************************************************************************)
(* summarizeArticle                                                        *)
(***************************************************************************)
SummariseEndpoint == "https://n8n-dev.subspace.money/webhook/summarise"

\* a && b
And(a, b) == IF Truthy(a) THEN b ELSE a

\* JSON.stringify of an object, as far as the receiver can tell: the
\* properties whose value is undefined are left out.
Stringify(v) ==
    IF v.t = "obj"
      THEN JObj([k \in {x \in DOMAIN v.o : v.o[x].t # "undef"} |-> v.o[k]])
      ELSE v

\* Format 1: the flat body.
FlatBody(article) ==
    Stringify(JObj(
        [content |-> Or(Or(Prop(article, "description"), Prop(article, "content")), JStr("")),
         title |-> Prop(article, "title"),
         url |-> Or(Prop(article, "url"), JStr("")),
         source |-> Or(Prop(article, "source"), JStr("unknown")),
         category |-> Or(Prop(article, "category"), JStr("general"))]))

\* Format 2: the article structure nested under article.
NestedBody(article) ==
    Stringify(JObj([article |-> Stringify(JObj(
        [content |-> Or(Or(Prop(article, "description"), Prop(article, "content")), JStr("")),
         title |-> Prop(article, "title"),
         url |-> Or(Prop(article, "url"), JStr("")),
         source |-> Or(Prop(article, "source"), JStr("unknown")),
         category |-> Or(Prop(article, "category"), JStr("general"))]))]))

\* Headers without the Authorization header.
HeadersNoAuth(token) == [ContentType |-> "application/json"]

\* The request headers: Content-Type, and Authorization if a token exists.
Headers(token) ==
    IF Truthy(token)
      THEN [ContentType |-> "application/json", Authorization |-> "Bearer " \o token.s]
      ELSE [ContentType |-> "application/json"]

Post(headers, body) ==
    [url |-> SummariseEndpoint, method |-> "POST", headers |-> headers, body |-> body]

\* ExtractSummary with content read before summary.
ExtractSummaryContentFirst(data) ==
    Or(Or(Or(Or(Or(Prop(data, "content"),
                   Prop(data, "summary")),
                Prop(data, "result")),
             And(Prop(data, "data"), Prop(Prop(data, "data"), "summary"))),
          And(Prop(data, "response"), Prop(Prop(data, "response"), "summary"))),
       JStr("No summary available"))

\* The summary read from a parsed response that is not a string.
ExtractSummary(data) ==
    Or(Or(Or(Or(Or(Prop(data, "summary"),
                   Prop(data, "content")),
                Prop(data, "result")),
             And(Prop(data, "data"), Prop(Prop(data, "data"), "summary"))),
          And(Prop(data, "response"), Prop(Prop(data, "response"), "summary"))),
       JStr("No summary available"))

\* A summarizeArticle call between its first POST and the response to it.
\* error is the message of the Error it throws, errorValues the values of
\* the response that the message is built from.
NewSummarize(article, token) ==
    [article |-> article,
     headers |-> Headers(token),
     posts |-> <<Post(Headers(token), FlatBody(article))>>,
     responses |-> <<>>,
     pc |-> "post1",
     result |-> JUndef,
     error |-> "",
     errorValues |-> <<>>]

\* SettlePost without the second attempt: a non-ok first response throws.
SettlePostNoRetry(call, resp) ==
    [call EXCEPT !.responses = Append(@, resp),
                 !.pc = IF resp.kind = "ok" /\ CanRead(resp.data) THEN "returned" ELSE "threw",
                 !.result = IF resp.kind = "ok" /\ CanRead(resp.data)
                              THEN (IF resp.data.t = "str" THEN resp.data
                                    ELSE ExtractSummary(resp.data))
                              ELSE JUndef]

\* SettlePost with another attempt after every non-ok response.
SettlePostRetriesAgain(call, resp) ==
    LET seen == [call EXCEPT !.responses = Append(@, resp)] IN
    IF resp.kind = "reject"
      THEN [seen EXCEPT !.pc = "threw", !.error = "Failed to fetch"]
    ELSE IF resp.kind = "status"
      THEN [seen EXCEPT !.pc = "post2",
                        !.posts = Append(@, Post(call.headers, NestedBody(call.article)))]
    ELSE IF resp.data.t = "str"
      THEN [seen EXCEPT !.pc = "returned", !.result = resp.data]
    ELSE IF ~CanRead(resp.data)
      THEN [seen EXCEPT !.pc = "threw", !.error = "Cannot read properties of null"]
    ELSE [seen EXCEPT !.pc = "returned", !.result = ExtractSummary(resp.data)]

\* SettlePost with the second attempt made after a rejected fetch too.
SettlePostRetriesOnReject(call, resp) ==
    LET seen == [call EXCEPT !.responses = Append(@, resp)] IN
    IF resp.kind \in {"reject", "status"} /\ call.pc = "post1"
      THEN [seen EXCEPT !.pc = "post2",
                        !.posts = Append(@, Post(call.headers, NestedBody(call.article)))]
    ELSE IF resp.kind = "reject"
      THEN [seen EXCEPT !.pc = "threw", !.error = "Failed to fetch"]
    ELSE IF resp.kind = "status"
      THEN [seen EXCEPT !.pc = "threw",
                        !.error = "Error summarizing article: " \o ToString(resp.status),
                        !.errorValues = <<ToString(resp.status)>>]
    ELSE IF resp.data.t = "str"
      THEN [seen EXCEPT !.pc = "returned", !.result = resp.data]
    ELSE IF ~CanRead(resp.data)
      THEN [seen EXCEPT !.pc = "threw", !.error = "Cannot read properties of null"]
    ELSE [seen EXCEPT !.pc = "returned", !.result = ExtractSummary(resp.data)]

\* The call once the response to its outstanding POST has arrived: a
\* rejected fetch throws; a non-ok first response issues the second POST; a
\* non-ok second response throws with the status; an ok response returns
\* the summary (reading a property of a null payload throws).
SettlePost(call, resp) ==
    LET seen == [call EXCEPT !.responses = Append(@, resp)] IN
    IF resp.kind = "reject"
      THEN [seen EXCEPT !.pc = "threw", !.error = "Failed to fetch"]
    ELSE IF resp.kind = "status" /\ call.pc = "post1"
      THEN [seen EXCEPT !.pc = "post2",
                        !.posts = Append(@, Post(call.headers, NestedBody(call.article)))]
    ELSE IF resp.kind = "status"
      THEN [seen EXCEPT !.pc = "threw",
                        !.error = "Error summarizing article: " \o ToString(resp.status),
                        !.errorValues = <<ToString(resp.status)>>]
    ELSE IF resp.data.t = "str"
      THEN [seen EXCEPT !.pc = "returned", !.result = resp.data]
    ELSE IF ~CanRead(resp.data)
      THEN [seen EXCEPT !.pc = "threw", !.error = "Cannot read properties of null"]
    ELSE [seen EXCEPT !.pc = "returned", !.result = ExtractSummary(resp.data)]

(***************************************************************************)
(* The inputs of the summarization orchestrator.                           *)
(***************************************************************************)
\* Articles with each of the fields the request body reads present or not
\* (url null, source and category empty).
SummarizeArticles ==
    {JObj([k \in K \cup {"title", "url", "source", "category"} |->
            CASE k = "title" -> JStr("t")
              [] k = "url" -> u
              [] k = "source" -> JStr(src)
              [] k = "category" -> JStr(cat)
              [] k = "description" -> JStr("a")
              [] k = "content" -> JStr("b")]) :
        K \in SUBSET {"description", "content"},
        u \in {JNull, JStr("u")},
        src \in {"", "s"},
        cat \in {"", "sports"}}

\* The fields of a summarization response that are read directly.
SummaryFields == {"summary", "content", "result"}

\* The parsed bodies of a successful summarization response: a string, null,
\* an object with any of the three fields, each empty or with a text of its
\* own, and objects with a summary under data or under response.
SummaryPayloads ==
    {JStr("top"), JStr(""), JNull}
    \cup {JObj([k \in K |-> IF k \in E THEN JStr("") ELSE JStr("text of " \o k)]) :
            K \in SUBSET SummaryFields, E \in SUBSET SummaryFields}
    \cup {JObj([data |-> JObj([summary |-> JStr("s")])]),
          JObj([response |-> JObj([summary |-> JStr("s")])]),
          JObj([data |-> JObj([summary |-> JStr("of data")]),
                response |-> JObj([summary |-> JStr("of response")])]),
          JObj([data |-> JObj([summary |-> JStr("")]),
                response |-> JObj([summary |-> JStr("of response")])]),
          JObj([data |-> JObj(NoFields),
                response |-> JObj([summary |-> JStr("of response")])]),
          JObj([data |-> JNull, response |-> JStr("r")]),
          JObj([result |-> JStr(""), data |-> JObj([summary |-> JStr("of data")])]),
          JObj([result |-> JStr("text of result"),
                data |-> JObj([summary |-> JStr("of data")])]),
          JObj([summary |-> JStr("No summary available")])}

SummaryResponses ==
    {[kind |-> "ok", status |-> 200, data |-> d, text |-> ""] : d \in SummaryPayloads}
    \cup {[kind |-> "status", status |-> s, data |-> JUndef, text |-> "bad"] : s \in {400, 500}}
    \cup {[kind |-> "reject", status |-> 0, data |-> JUndef, text |-> ""]}

(***************************************************************************)
(* getSentimentFromContent. A text is the sequence of its characters.      *)
(***************************************************************************)
positiveWords ==
    <<<<"s", "u", "r", "g", "e">>,
      <<"g", "a", "i", "n">>,
      <<"r", "i", "s", "e">>,
      <<"i", "m", "p", "r", "o", "v", "e">>,
      <<"p", "o", "s", "i", "t", "i", "v", "e">>,
      <<"u", "p">>,
      <<"g", "r", "o", "w", "t", "h">>>>

negativeWords ==
    <<<<"p", "l", "u", "n", "g", "e">>,
      <<"d", "i", "v", "e">>,
      <<"m", "e", "l", "t", "d", "o", "w", "n">>,
      <<"f", "a", "l", "l">>,
      <<"n", "e", "g", "a", "t", "i", "v", "e">>,
      <<"d", "o", "w", "n">>,
      <<"n", "o", "s", "e", "d", "i", "v", "e">>,
      <<"b", "a", "c", "k", "l", "a", "s", "h">>>>

\* The characters of a string.
TextOf(s) == [i \in 1..Len(s) |-> SubSeq(s, i, i)]

UpperLetters ==
    <<"A", "B", "C", "D", "E", "F", "G", "H", "I", "J", "K", "L", "M",
      "N", "O", "P", "Q", "R", "S", "T", "U", "V", "W", "X", "Y", "Z">>

LowerLetters ==
    <<"a", "b", "c", "d", "e", "f", "g", "h", "i", "j", "k", "l", "m",
      "n", "o", "p", "q", "r", "s", "t", "u", "v", "w", "x", "y", "z">>

\* String.prototype.toLowerCase on one character: an upper-case letter
\* becomes its lower-case letter, any other character stays.
LowerChar(c) ==
    IF \E i \in DOMAIN UpperLetters : UpperLetters[i] = c
      THEN LowerLetters[CHOOSE i \in DOMAIN UpperLetters : UpperLetters[i] = c]
      ELSE c

toLowerCase(text) == [i \in 1..Len(text) |-> LowerChar(text[i])]

\* includes that looks for the word at the start of the content only.
includesAtStart(content, word) ==
    Len(word) <= Len(content) /\ SubSeq(content, 1, Len(word)) = word

\* content.includes(word): word occurs as a substring.
includes(content, word) ==
    \E i \in 1..(Len(content) - Len(word) + 1) :
        SubSeq(content, i, i + Len(word) - 1) = word

\* MatchCount that counts every occurrence of every word.
MatchCountOccurrences(words, content) ==
    Cardinality({at \in (DOMAIN words) \X (DOMAIN content) :
                    /\ at[2] + Len(words[at[1]]) - 1 <= Len(content)
                    /\ SubSeq(content, at[2], at[2] + Len(words[at[1]]) - 1)
                          = words[at[1]]})

\* words.filter(word => content.includes(word)).length
MatchCount(words, content) ==
    Cardinality({i \in DOMAIN words : includes(content, words[i])})

\* getSentimentFromContent with a tie counted as positive.
getSentimentTiesPositive(content) ==
    LET lowered == toLowerCase(content)
        positiveCount == MatchCount(positiveWords, lowered)
        negativeCount == MatchCount(negativeWords, lowered)
    IN IF positiveCount >= negativeCount THEN "positive"
       ELSE IF negativeCount > positiveCount THEN "negative"
       ELSE "neutral"

getSentimentFromContent(content) ==
    LET lowered == toLowerCase(content)
        positiveCount == MatchCount(positiveWords, lowered)
        negativeCount == MatchCount(negativeWords, lowered)
    IN IF positiveCount > negativeCount THEN "positive"
       ELSE IF negativeCount > positiveCount THEN "negative"
       ELSE "neutral"

(***************************************************************************)
(* The inputs of the fetch client.                                         *)
(***************************************************************************)
Categories == {"", "sports"}
Numbers == {0, 7}

FetchOptions ==
    UNION {[K -> {JStr(c) : c \in Categories} \cup {JNum(n) : n \in Numbers}]
             : K \in SUBSET OptionKeys}

\* Options as the type FetchArticlesOptions allows them: a string category,
\* numeric limit and offset.
TypedOptions ==
    {o \in FetchOptions :
        /\ "category" \in DOMAIN o => o["category"].t = "str"
        /\ "limit" \in DOMAIN o => o["limit"].t = "num"
        /\ "offset" \in DOMAIN o => o["offset"].t = "num"}

\* The article objects a feed response may carry: with or without an id
\* (possibly the empty string), a description and a content of its own.
Items ==
    {JObj(o) : o \in UNION {
        [K -> {JStr("")} \cup {JStr(s) : s \in {"a", "b"}}] :
            K \in SUBSET {"id", "description", "content"}}}

FeedItems ==
    {a \in Items :
        /\ "description" \in DOMAIN a.o => a.o["description"] = JStr("a")
        /\ "content" \in DOMAIN a.o => a.o["content"] = JStr("b")}

RECURSIVE SeqsUpTo(_, _)
SeqsUpTo(S, n) ==
    IF n = 0 THEN {<<>>}
    ELSE LET shorter == SeqsUpTo(S, n - 1)
         IN shorter \cup {Append(s, x) : s \in {q \in shorter : Len(q) = n - 1}, x \in S}

ItemArrays == {JArr(a) : a \in SeqsUpTo(FeedItems, MaxItems)}

\* The parsed bodies of a successful feed response: {data: [...]}, a bare
\* array, {data: <article>}, {data: null}, {data: ""}, an object without
\* data (a single article in the old format), a string, and null.
FeedPayloads ==
    {JObj([data |-> a]) : a \in ItemArrays}
    \cup ItemArrays
    \cup {JObj([data |-> a]) : a \in FeedItems}
    \cup {JObj([data |-> JNull]), JObj([data |-> JStr("")])}
    \cup FeedItems
    \cup {JStr("a"), JNull}

\* The bodies of a response with a non-successful status: none that parses,
\* or one that has the shape of a feed.
ErrorBodies == {JUndef, JObj([data |-> JArr(<<JObj([id |-> JStr("a")])>>)])}

FeedResponses ==
    {[kind |-> "ok", status |-> 200, data |-> d] : d \in FeedPayloads}
    \cup {[kind |-> "status", status |-> s, data |-> d] : s \in {400, 500}, d \in ErrorBodies}
    \cup {[kind |-> "reject", status |-> 0, data |-> JUndef]}

\* Whether the normalization reads Date.now() for element i of the
\* response: for each element of data.data that has no truthy id, and for a
\* single article without one.
ReadsClock(resp, i) ==
    IF resp.kind # "ok" \/ ~CanRead(resp.data) THEN FALSE
    ELSE LET dd == Prop(resp.data, "data") IN
         IF IsArray(dd) THEN ~Truthy(Prop(dd.a[i], "id"))
         ELSE IF IsArray(resp.data) THEN FALSE
         ELSE Truthy(dd) /\ ~Truthy(Prop(dd, "id"))

\* How many elements the normalization of a response goes through.
ClockReads(resp) ==
    IF resp.kind # "ok" \/ ~CanRead(resp.data) THEN 0
    ELSE LET dd == Prop(resp.data, "data") IN
         IF IsArray(dd) THEN Len(dd.a)
         ELSE IF IsArray(resp.data) THEN 0
         ELSE IF Truthy(dd) THEN 1
         ELSE 0

\* The clock as the normalization of resp sees it, element by element: it
\* never goes backwards, and stands where no element reads it.
Clocks(from, resp) ==
    LET n == ClockReads(resp) IN
    {c \in [1..n -> from..MaxNow] :
        \A i \in 1..n :
            LET before == IF i = 1 THEN from ELSE c[i - 1]
            IN IF ReadsClock(resp, i) THEN before <= c[i] ELSE before = c[i]}

(***************************************************************************)
(* The fetch client on its own: one call at a time. SpecFetch draws every  *)
(* response for a few options; SpecUrl draws every filter for a few        *)
(* responses.                                                              *)
(***************************************************************************)
FewOptions == {o \in TypedOptions : DOMAIN o \subseteq {"category"}}

FewResponses ==
    {r \in FeedResponses :
        r.kind = "ok" => r.data \in {JArr(<<>>), JObj([data |-> JArr(<<>>)])}}

\* What localStorage and nhost may hold: no token, a token, an empty token.
Storages ==
    {[k \in {} |-> ""], [k \in {TokenKey} |-> ""],
     [k \in {TokenKey, ExpiryKey} |-> IF k = TokenKey THEN "jwt1" ELSE "2026"]}
AccessTokens == {JUndef, JStr("jwt2")}

\* No page is mounted while a service is exercised on its own.
NoView ==
    /\ view = "none"
    /\ articles = <<>>
    /\ isLoading = FALSE
    /\ screen = "none"
    /\ selectedCategory = ""
    /\ toasts = <<>>
    /\ handlers = <<>>
    /\ clicks = 0

FetchInit ==
    /\ now \in 0..MaxNow
    /\ fetches = <<>>
    /\ calls = <<>>
    /\ localStorage = [k \in {} |-> ""]
    /\ nhostToken = JUndef
    /\ signOuts = <<>>
    /\ NoView

SummarizeInit ==
    /\ now = 0
    /\ fetches = <<>>
    /\ calls = <<>>
    /\ localStorage \in Storages
    /\ nhostToken \in AccessTokens
    /\ signOuts = <<>>
    /\ NoView

\* fetchArticles(options) is called and issues its GET.
FetchCall(Options) ==
    /\ fetches = <<>>
    /\ \E options \in Options : fetches' = <<NewFetch(options)>>
    /\ UNCHANGED <<now, calls, authVars, viewVars>>

\* The response arrives and the call returns or throws.
FetchResponse(Responses) ==
    /\ Len(fetches) = 1
    /\ fetches[1].pc = "pending"
    /\ \E resp \in Responses : \E clock \in Clocks(now, resp) :
         /\ fetches' = <<SettleFetch(fetches[1], resp, clock)>>
         /\ now' = IF clock = <<>> THEN now ELSE clock[Len(clock)]
    /\ UNCHANGED <<calls, authVars, viewVars>>

\* The harness forgets the settled call, so that the next one can be made.
FetchDone ==
    /\ Len(fetches) = 1
    /\ fetches[1].pc # "pending"
    /\ fetches' = <<>>
    /\ UNCHANGED <<now, calls, authVars, viewVars>>

FetchNext == FetchCall(FewOptions) \/ FetchResponse(FeedResponses) \/ FetchDone

SpecFetch == FetchInit /\ [][FetchNext]_vars

UrlNext == FetchCall(TypedOptions) \/ FetchResponse(FewResponses) \/ FetchDone

SpecUrl == FetchInit /\ [][UrlNext]_vars

(***************************************************************************)
(* The summarization orchestrator on its own: one call at a time, any      *)
(* article, any responses.                                                 *)
(***************************************************************************)
\* summarizeArticle(article) is called and issues its first POST.
SummarizeCall ==
    /\ calls = <<>>
    /\ \E article \in SummarizeArticles :
         calls' = <<NewSummarize(article, GetToken(localStorage, nhostToken))>>
    /\ UNCHANGED <<now, fetches, authVars, viewVars>>

\* The response to the outstanding POST arrives.
SummarizeResponse ==
    /\ Len(calls) = 1
    /\ calls[1].pc \in {"post1", "post2"}
    /\ \E resp \in SummaryResponses : calls' = <<SettlePost(calls[1], resp)>>
    /\ UNCHANGED <<now, fetches, authVars, viewVars>>

\* The harness forgets the settled call.
SummarizeDone ==
    /\ Len(calls) = 1
    /\ calls[1].pc \in {"returned", "threw"}
    /\ calls' = <<>>
    /\ UNCHANGED <<now, fetches, authVars, viewVars>>

SummarizeNext == SummarizeCall \/ SummarizeResponse \/ SummarizeDone

SpecSummarize == SummarizeInit /\ [][SummarizeNext]_vars

(***************************************************************************)
(* The views: NewsFeed and SavedArticles.                                  *)
(***************************************************************************)
AVAILABLE_CATEGORIES ==
    {"general", "business", "entertainment", "health", "science", "sports",
     "technology"}

\* The categories the user clicks in the model.
ClickedCategories == {"sports"}

\* article.id === articleId
SameId(article, articleId) == Prop(article, "id") = articleId

\* fetchedArticles.map(...): the article with its sentiment and the flags of
\* the view. SavedArticles marks every article saved.
ProcessArticle(article, page) ==
    Spread(article,
        [sentiment |-> JStr(getSentimentFromContent(TextOf(
            Or(Or(Prop(article, "description"), Prop(article, "content")), JStr("")).s))),
         is_read |-> JBool(FALSE),
         is_saved |-> JBool(page = "SavedArticles"),
         summary |-> JStr(""),
         isSummarizing |-> JBool(FALSE)])

\* The options a view passes to fetchArticles: {category: category ||
\* undefined} in the news feed, none in the saved articles.
LoadOptions(page, category) ==
    IF page = "NewsFeed" THEN [category |-> Or(JStr(category), JUndef)] ELSE NoFields

\* prev.map(article => article.id === articleId ? {...article, ...over} : article)
UpdateById(list, articleId, over) ==
    [i \in 1..Len(list) |->
        IF SameId(list[i], articleId) THEN Spread(list[i], over) ELSE list[i]]

\* articles.find(article => article.id === articleId): its position, 0 if
\* there is none.
FindById(list, articleId) ==
    IF \E i \in DOMAIN list : SameId(list[i], articleId)
      THEN CHOOSE i \in DOMAIN list :
             /\ SameId(list[i], articleId)
             /\ \A j \in 1..(i - 1) : ~SameId(list[j], articleId)
      ELSE 0

RECURSIVE FilterOut(_, _)
\* prev.filter(article => article.id !== articleId)
FilterOut(list, articleId) ==
    IF list = <<>> THEN <<>>
    ELSE (IF SameId(Head(list), articleId) THEN <<>> ELSE <<Head(list)>>)
         \o FilterOut(Tail(list), articleId)

Toast(kind, msg, op, n) == [kind |-> kind, msg |-> msg, op |-> op, n |-> n]

\* The feed responses the views are run against: {data: [...]} with ids and
\* a bare array without ids.
ViewPayloads ==
    {JObj([data |-> JArr(<<JObj([id |-> JStr("a"), description |-> JStr("Gain")]),
                           JObj([id |-> JStr("b"), description |-> JStr("plunge")])>>)]),
     JArr(<<JObj([description |-> JStr("a")]), JObj([description |-> JStr("b")])>>)}

ViewFeedResponses ==
    {[kind |-> "ok", status |-> 200, data |-> d] : d \in ViewPayloads}
    \cup {[kind |-> "status", status |-> 500, data |-> JUndef],
          [kind |-> "reject", status |-> 0, data |-> JUndef]}

ViewSummaryResponses ==
    {[kind |-> "ok", status |-> 200, data |-> d, text |-> ""] :
        d \in {JObj([summary |-> JStr("s")]), JObj(NoFields), JStr("")}}
    \cup {[kind |-> "status", status |-> 500, data |-> JUndef, text |-> "bad"],
          [kind |-> "reject", status |-> 0, data |-> JUndef, text |-> ""]}

\* A fetchArticles call that has settled: its frame is gone, what remains is
\* how it ended, the GETs it made and the URL they went to.
ForgetFetch(call) ==
    IF call.pc \in {"returned", "threw"}
      THEN [pc |-> call.pc, sent |-> call.gets, url |-> call.url]
      ELSE call

\* A summarizeArticle call that has settled: what remains is how it ended,
\* the POSTs it made and how the first of them was answered.
ForgetSummarize(call) ==
    IF call.pc \in {"returned", "threw"}
      THEN [pc |-> call.pc, sent |-> Len(call.posts), first |-> call.responses[1].kind]
      ELSE call

\* A page is mounted: its state is the initial useState values, and the
\* mount effect has called the loader, which has issued its GET.
Init ==
    /\ now = 0
    /\ view \in {"NewsFeed", "SavedArticles"}
    /\ articles = <<>>
    /\ isLoading = TRUE
    /\ screen = "spinner"
    /\ selectedCategory = ""
    /\ toasts = <<>>
    /\ handlers = <<>>
    /\ clicks = 0
    /\ calls = <<>>
    /\ fetches = <<NewFetch(LoadOptions(view, ""))>>
    /\ localStorage = [k \in {TokenKey} |-> "jwt1"]
    /\ nhostToken = JStr("jwt2")
    /\ signOuts = <<>>

\* The buttons of a page are on the screen while the screen shows the page
\* and not the spinner of the loading render.
Rendered == view # "none" /\ screen = "page" /\ clicks < MaxClicks

\* AfterLoad that empties the list when the load fails.
AfterLoadClearsList(list, shown, page, i, call) ==
    IF call.pc = "returned"
      THEN [articles |-> [j \in 1..Len(call.result) |-> ProcessArticle(call.result[j], page)],
            toasts |-> shown]
      ELSE [articles |-> <<>>,
            toasts |-> Append(shown,
               Toast("error",
                     IF page = "NewsFeed" THEN "Failed to fetch articles"
                     ELSE "Failed to fetch saved articles", "load", i))]

\* AfterLoad that adds the new batch to the list it holds.
AfterLoadAppends(list, shown, page, i, call) ==
    IF call.pc = "returned"
      THEN [articles |-> list \o [j \in 1..Len(call.result) |->
                                     ProcessArticle(call.result[j], page)],
            toasts |-> shown]
      ELSE [articles |-> list,
            toasts |-> Append(shown,
               Toast("error",
                     IF page = "NewsFeed" THEN "Failed to fetch articles"
                     ELSE "Failed to fetch saved articles", "load", i))]

\* The list and the toasts after the try/catch of the loader has run for
\* the settled fetchArticles call i: the processed articles replace the
\* list, or the list stays and the error is notified.
AfterLoad(list, shown, page, i, call) ==
    IF call.pc = "returned"
      THEN [articles |-> [j \in 1..Len(call.result) |-> ProcessArticle(call.result[j], page)],
            toasts |-> shown]
      ELSE [articles |-> list,
            toasts |-> Append(shown,
               Toast("error",
                     IF page = "NewsFeed" THEN "Failed to fetch articles"
                     ELSE "Failed to fetch saved articles", "load", i))]

\* loadArticles / fetchSavedArticles from the response of its GET on: the
\* processed articles replace the list, or the error is notified; the
\* loading flag is reset either way, and the page is rendered. A response
\* is handled after the render that an earlier event has queued.
LoadSettles(i, resp, clock) ==
    LET call == SettleFetch(fetches[i], resp, clock)
        after == AfterLoad(articles, toasts, view, i, call)
    IN
    /\ fetches[i].pc = "pending"
    /\ isLoading => screen = "spinner"
    /\ fetches' = [fetches EXCEPT ![i] = ForgetFetch(call)]
    /\ now' = IF clock = <<>> THEN now ELSE clock[Len(clock)]
    /\ articles' = after.articles
    /\ toasts' = after.toasts
    /\ isLoading' = FALSE
    /\ screen' = "page"
    /\ UNCHANGED <<calls, authVars, view, selectedCategory, handlers, clicks>>

\* SelectCategory whose load reads the category of the render before.
SelectCategoryStale(category) ==
    /\ selectedCategory' = category
    /\ isLoading' = TRUE
    /\ fetches' = Append(fetches, NewFetch(LoadOptions(view, selectedCategory)))
    /\ clicks' = clicks + 1
    /\ UNCHANGED <<now, calls, authVars, view, articles, screen, toasts, handlers>>

\* setSelectedCategory(category) and the effect it triggers: loadArticles
\* queues the update of the loading flag and issues its GET. The screen
\* keeps the page, with its buttons, until that update is rendered.
SelectCategory(category) ==
    /\ selectedCategory' = category
    /\ isLoading' = TRUE
    /\ fetches' = Append(fetches, NewFetch(LoadOptions(view, category)))
    /\ clicks' = clicks + 1
    /\ UNCHANGED <<now, calls, authVars, view, articles, screen, toasts, handlers>>

\* The update of the loading flag that an effect has queued is rendered:
\* the spinner replaces the page.
RenderLoading ==
    /\ view # "none"
    /\ isLoading
    /\ screen = "page"
    /\ screen' = "spinner"
    /\ UNCHANGED <<now, fetches, calls, authVars, view, articles, isLoading,
                   selectedCategory, toasts, handlers, clicks>>

\* A category button of the news feed is clicked.
handleCategoryChange(category) ==
    /\ Rendered
    /\ view = "NewsFeed"
    /\ SelectCategory(IF category = selectedCategory THEN "" ELSE category)

\* The Clear Filter button, rendered while a category is selected.
ClearFilter ==
    /\ Rendered
    /\ view = "NewsFeed"
    /\ selectedCategory # ""
    /\ SelectCategory("")

\* prev.map(article => article.id === articleId
\*     ? {...article, is_read: !article.is_read} : article)
MarkAsRead(list, articleId) ==
    [i \in 1..Len(list) |->
        IF SameId(list[i], articleId)
          THEN Spread(list[i], [is_read |-> JBool(~Truthy(Prop(list[i], "is_read")))])
          ELSE list[i]]

\* The Mark as Read button of the article at position pos.
handleMarkAsRead(pos) ==
    LET articleId == Prop(articles[pos], "id") IN
    /\ Rendered
    /\ view = "NewsFeed"
    /\ articles' = MarkAsRead(articles, articleId)
    /\ toasts' = Append(toasts, Toast("success", "Article marked as read", "read", 0))
    /\ clicks' = clicks + 1
    /\ UNCHANGED <<now, fetches, calls, authVars, view, isLoading, screen, selectedCategory,
                   handlers>>

\* The Remove button of the saved article at position pos.
handleRemoveFromSaved(pos) ==
    LET articleId == Prop(articles[pos], "id") IN
    /\ Rendered
    /\ view = "SavedArticles"
    /\ articles' = FilterOut(articles, articleId)
    /\ toasts' = Append(toasts,
          Toast("success", "Article removed from saved items", "remove", 0))
    /\ clicks' = clicks + 1
    /\ UNCHANGED <<now, fetches, calls, authVars, view, isLoading, screen, selectedCategory,
                   handlers>>

\* The Summarize button of the article at position pos, disabled while the
\* article is summarizing: handleSummarizeArticle up to its await. The
\* article found by id gets its flag set and is sent with the first POST;
\* the news feed shows a loading toast.
handleSummarizeArticle(pos) ==
    LET articleId == Prop(articles[pos], "id")
        found == FindById(articles, articleId)
        toastId == IF view = "NewsFeed" THEN Len(toasts) + 1 ELSE 0
    IN
    /\ Rendered
    /\ ~Truthy(Prop(articles[pos], "isSummarizing"))
    /\ found # 0
    /\ articles' = UpdateById(articles, articleId, [isSummarizing |-> JBool(TRUE)])
    /\ toasts' = IF view = "NewsFeed"
                   THEN Append(toasts, Toast("loading", "Generating summary...",
                                             "summarize", Len(calls) + 1))
                   ELSE toasts
    /\ calls' = Append(calls,
          NewSummarize(articles[found], GetToken(localStorage, nhostToken)))
    /\ handlers' = Append(handlers,
          [articleId |-> articleId, toastId |-> toastId, pc |-> "awaiting"])
    /\ clicks' = clicks + 1
    /\ UNCHANGED <<now, fetches, authVars, view, isLoading, screen, selectedCategory>>

\* The news feed treats an empty summary and the default text as a failure.
NoSummary(summary) == ~Truthy(summary) \/ summary = JStr("No summary available")

\* AfterSummary that stores whatever summarizeArticle has returned, as the
\* saved articles page does.
AfterSummaryStoresAny(list, shown, page, h, c, summary) ==
    [articles |-> UpdateById(list, h.articleId,
                     [summary |-> summary, isSummarizing |-> JBool(FALSE)]),
     toasts |-> IF page = "NewsFeed"
                  THEN [shown EXCEPT ![h.toastId] =
                          Toast("success", "Article summarized successfully",
                                "summarize", c)]
                  ELSE Append(shown,
                          Toast("success", "Article summarized successfully",
                                "summarize", c)),
     pc |-> "succeeded"]

\* The list and the toasts after summarizeArticle has returned summary to
\* the handler h of call c.
AfterSummary(list, shown, page, h, c, summary) ==
    IF page = "NewsFeed" /\ NoSummary(summary)
      THEN [articles |-> UpdateById(list, h.articleId, [isSummarizing |-> JBool(FALSE)]),
            toasts |-> [shown EXCEPT ![h.toastId] =
                          Toast("error", "Could not generate summary for this article",
                                "summarize", c)],
            pc |-> "failed"]
    ELSE [articles |-> UpdateById(list, h.articleId,
                          [summary |-> summary, isSummarizing |-> JBool(FALSE)]),
          toasts |-> IF page = "NewsFeed"
                       THEN [shown EXCEPT ![h.toastId] =
                               Toast("success", "Article summarized successfully",
                                     "summarize", c)]
                       ELSE Append(shown,
                               Toast("success", "Article summarized successfully",
                                     "summarize", c)),
          pc |-> "succeeded"]

\* AfterError that leaves the flag set.
AfterErrorKeepsFlag(list, shown, page, h, c, error) ==
    [articles |-> list,
     toasts |-> Append(shown, Toast("error", "Failed to summarize article", "summarize", c)),
     pc |-> "failed"]

\* The list and the toasts after the catch block of the handler h of call c
\* has run: an error toast of its own, and the flag reset.
AfterError(list, shown, page, h, c, error) ==
    [articles |-> UpdateById(list, h.articleId, [isSummarizing |-> JBool(FALSE)]),
     toasts |-> Append(shown,
        Toast("error",
              IF page = "NewsFeed" THEN "Failed to summarize article: " \o error
              ELSE "Failed to summarize article", "summarize", c)),
     pc |-> "failed"]

\* The response to the outstanding POST of call c arrives; if that settles
\* summarizeArticle, handleSummarizeArticle resumes from its await.
PostSettles(c, resp) ==
    LET call == SettlePost(calls[c], resp)
        h == handlers[c]
        after == IF call.pc = "returned"
                   THEN AfterSummary(articles, toasts, view, h, c, call.result)
                   ELSE AfterError(articles, toasts, view, h, c, call.error)
    IN
    /\ calls[c].pc \in {"post1", "post2"}
    /\ calls' = [calls EXCEPT ![c] = ForgetSummarize(call)]
    /\ IF call.pc = "post2"
         THEN UNCHANGED <<articles, toasts, handlers>>
         ELSE /\ articles' = after.articles
              /\ toasts' = after.toasts
              /\ handlers' = [handlers EXCEPT ![c].pc = after.pc]
    /\ UNCHANGED <<now, fetches, authVars, view, isLoading, screen, selectedCategory, clicks>>

LoadResponse ==
    \E i \in DOMAIN fetches : \E resp \in ViewFeedResponses :
        \E clock \in Clocks(now, resp) : LoadSettles(i, resp, clock)

CategoryClick == \E category \in ClickedCategories : handleCategoryChange(category)

MarkAsReadClick == \E pos \in DOMAIN articles : handleMarkAsRead(pos)

RemoveClick == \E pos \in DOMAIN articles : handleRemoveFromSaved(pos)

SummarizeClick == \E pos \in DOMAIN articles : handleSummarizeArticle(pos)

SummaryResponse ==
    \E c \in DOMAIN calls : \E resp \in ViewSummaryResponses : PostSettles(c, resp)

Next ==
    \/ LoadResponse
    \/ RenderLoading
    \/ CategoryClick
    \/ ClearFilter
    \/ MarkAsReadClick
    \/ RemoveClick
    \/ SummarizeClick
    \/ SummaryResponse

Spec == Init /\ [][Next]_vars

\* Every POST is answered: by a response, or by the rejection the browser
\* raises for a request that cannot complete.
FairSpec == Spec /\ WF_vars(SummaryResponse)

(***************************************************************************)
(* The sentiment classifier on its own: a view maps a batch of fetched     *)
(* articles to the articles it shows, each with the sentiment of its       *)
(* description.                                                            *)
(***************************************************************************)
\* String.prototype.toUpperCase on one character.
UpperChar(c) ==
    IF \E i \in DOMAIN LowerLetters : LowerLetters[i] = c
      THEN UpperLetters[CHOOSE i \in DOMAIN LowerLetters : LowerLetters[i] = c]
      ELSE c

RECURSIVE Join(_)
\* The string of a sequence of characters.
Join(chars) == IF chars = <<>> THEN "" ELSE Head(chars) \o Join(Tail(chars))

\* The text with the letters at the positions of upper in upper case and
\* the others in lower case.
Recase(text, upper) ==
    Join([i \in 1..Len(text) |->
            IF i \in upper THEN UpperChar(TextOf(text)[i]) ELSE LowerChar(TextOf(text)[i])])

\* The words the texts are made of: keywords of both lists, keywords inside
\* other words (up in supply, dive in nosedive, down in meltdown), and a
\* word without a keyword.
Words ==
    {"surge", "gain", "up", "supply", "plunge", "dive", "nosedive", "meltdown",
     "fall", "report"}

RECURSIVE Phrases(_)
\* The texts of at most n words.
Phrases(n) ==
    IF n = 0 THEN {""}
    ELSE Phrases(n - 1)
         \cup {IF t = "" THEN w ELSE t \o " " \o w : t \in Phrases(n - 1), w \in Words}

Texts == Phrases(MaxWords)

\* The casings a text is tried in: every one for a short text; all lower,
\* all upper, capitalized, and alternating for a longer one.
Casings(text) ==
    IF Len(text) <= MaxFreeCase THEN SUBSET (1..Len(text))
    ELSE {{}, 1..Len(text), {1}, {i \in 1..Len(text) : i % 2 = 1}}

Examples ==
    <<"stocks surge on growth", "markets plunge amid backlash",
      "quarterly report released">>

\* The batches of descriptions: a text and a re-casing of it, a text and
\* the same text with its first word repeated, and the three example texts.
Batches ==
    UNION {{<<text, Recase(text, upper)>> : upper \in Casings(text)} : text \in Texts}
    \cup {<<w \o " " \o v, w \o " " \o w \o " " \o v>> : w \in Words, v \in Words}
    \cup {<<Examples[i], Recase(Examples[i], upper)>> :
            i \in DOMAIN Examples, upper \in {{}, {1}}}
    \cup {Examples}

SentimentInit ==
    /\ now = 0
    /\ fetches = <<>>
    /\ calls = <<>>
    /\ localStorage = [k \in {} |-> ""]
    /\ nhostToken = JUndef
    /\ signOuts = <<>>
    /\ view \in {"NewsFeed", "SavedArticles"}
    /\ articles = <<>>
    /\ isLoading = FALSE
    /\ screen = "page"
    /\ selectedCategory = ""
    /\ toasts = <<>>
    /\ handlers = <<>>
    /\ clicks = 0

\* fetchedArticles.map(...) and setArticles(processedArticles) for the
\* first batch of a view, of articles with the given descriptions.
ProcessBatch ==
    /\ articles = <<>>
    /\ \E batch \in Batches :
         articles' = [j \in 1..Len(batch) |->
                        ProcessArticle(JObj([description |-> JStr(batch[j])]), view)]
    /\ UNCHANGED <<now, fetches, calls, authVars, view, isLoading, screen, selectedCategory,
                   toasts, handlers, clicks>>

SentimentNext == ProcessBatch

SpecSentiment == SentimentInit /\ [][SentimentNext]_vars

(***************************************************************************)
(* Signing out from the navigation bar. The nhost client holds the         *)
(* session; the application keeps a copy of its access token in            *)
(* localStorage.                                                           *)
(***************************************************************************)
SessionTokens == {"jwt1", "jwt2"}
Expiries == {"2026-01-01T00:00:00.000Z", "2026-01-01T00:15:00.000Z"}
SignOutOutcomes == {"ok", "error", "throw"}

\* A signed-in user is on a page: the listener has stored the token of the
\* session, which the client may have refreshed since.
SignOutInit ==
    /\ now = 0
    /\ fetches = <<>>
    /\ calls = <<>>
    /\ \E token \in SessionTokens : \E expiry \in Expiries :
          localStorage = StoreSession([k \in {} |-> ""], token, expiry)
    /\ nhostToken \in {JStr(token) : token \in SessionTokens}
    /\ signOuts = <<>>
    /\ view \in {"NewsFeed", "SavedArticles"}
    /\ articles = <<>>
    /\ isLoading = FALSE
    /\ screen = "page"
    /\ selectedCategory = ""
    /\ toasts = <<>>
    /\ handlers = <<>>
    /\ clicks = 0

\* The Sign out button, rendered while nhost reports the user as
\* authenticated: handleSignOut up to its await of signOut().
SignOutClick ==
    /\ Truthy(nhostToken)
    /\ Len(signOuts) < MaxSignOuts
    /\ signOuts' = Append(signOuts, [pc |-> "awaiting", outcome |-> "none"])
    /\ UNCHANGED <<now, fetches, calls, localStorage, nhostToken, viewVars>>

\* signOut() settles and handleSignOut goes on from its await. A signOut
\* without an error has ended the session; what one that fails leaves of
\* the session is the client's matter.
SignOutSettles(i, outcome, session) ==
    LET after == AfterSignOut(localStorage, view, outcome) IN
    /\ signOuts[i].pc = "awaiting"
    /\ outcome = "ok" => session = JUndef
    /\ signOuts' = [signOuts EXCEPT ![i] = [pc |-> "ended", outcome |-> outcome]]
    /\ localStorage' = after.storage
    /\ view' = after.view
    /\ nhostToken' = session
    /\ UNCHANGED <<now, fetches, calls, articles, isLoading, screen, selectedCategory,
                   toasts, handlers, clicks>>

SignOutResult ==
    \E i \in DOMAIN signOuts : \E outcome \in SignOutOutcomes :
        \E session \in {nhostToken, JUndef} : SignOutSettles(i, outcome, session)

\* The user signs in again: the client has a session, and its SIGNED_IN
\* listener stores the access token and the expiry.
SignedIn ==
    /\ ~Truthy(nhostToken)
    /\ \E token \in SessionTokens : \E expiry \in Expiries :
          /\ nhostToken' = JStr(token)
          /\ localStorage' = StoreSession(localStorage, token, expiry)
    /\ UNCHANGED <<now, fetches, calls, signOuts, viewVars>>

\* The client refreshes the access token (autoRefreshToken); the listener
\* stores nothing for that event.
TokenChanged ==
    /\ Truthy(nhostToken)
    /\ \E token \in SessionTokens :
          /\ JStr(token) # nhostToken
          /\ nhostToken' = JStr(token)
    /\ UNCHANGED <<now, fetches, calls, localStorage, signOuts, viewVars>>

SignOutNext == SignOutClick \/ SignOutResult \/ SignedIn \/ TokenChanged

SpecSignOut == SignOutInit /\ [][SignOutNext]_vars

(***************************************************************************)
(* Properties of the fetch client.                                         *)
(***************************************************************************)
Settled == {i \in DOMAIN fetches : fetches[i].pc # "pending"}
Returned == {i \in DOMAIN fetches : fetches[i].pc = "returned"}

\* The keys of an article other than the two that the normalization writes.
OtherKeys(article) == DOMAIN article.o \ {"id", "content"}

\* C5: in every batch fetchArticles returns, every article has an identifier
\* and the identifiers are pairwise distinct. Stated for the two shapes that
\* carry an array of articles, {data: [...]} and the bare array.
C5_BatchIdsDistinct ==
    \A i \in Returned :
        LET result == fetches[i].result
            data == fetches[i].resp.data
        IN (IsArray(data) \/ IsArray(Prop(data, "data"))) =>
        \A j \in DOMAIN result :
            /\ Prop(result[j], "id").t = "str"
            /\ \A k \in DOMAIN result :
                 j # k => Prop(result[j], "id") # Prop(result[k], "id")

\* C6: for a response {data: [a1..an]} in which no item has an id, the call
\* returns n items in the same order, item i carrying the identifier
\* "<i-1>-<millis>", its content equal to its description and its other
\* fields as received; the identifiers are pairwise distinct.
C6_DataArraySynthesized ==
    \A i \in Settled :
        LET data == fetches[i].resp.data
            items == Prop(data, "data")
            result == fetches[i].result
        IN (/\ fetches[i].resp.kind = "ok"
            /\ CanRead(data)
            /\ IsArray(items)
            /\ \A j \in DOMAIN items.a : "id" \notin DOMAIN items.a[j].o)
           => /\ fetches[i].pc = "returned"
              /\ Len(result) = Len(items.a)
              /\ \A j \in DOMAIN result :
                   /\ \E t \in 0..MaxNow :
                        Prop(result[j], "id")
                            = JStr(ToString(j - 1) \o "-" \o ToString(t))
                   /\ Prop(result[j], "content") = Prop(items.a[j], "description")
                   /\ OtherKeys(result[j]) = OtherKeys(items.a[j])
                   /\ \A k \in OtherKeys(result[j]) : result[j].o[k] = items.a[j].o[k]
                   /\ \A k \in DOMAIN result :
                        j # k => Prop(result[j], "id") # Prop(result[k], "id")

\* A response {data: [a1, a2]} without ids, one item with a content of its
\* own beside its description, has been normalized.
C6_Witness ==
    \E i \in Returned :
        LET items == Prop(fetches[i].resp.data, "data") IN
        /\ IsArray(items)
        /\ Len(items.a) = 2
        /\ \A j \in DOMAIN items.a : "id" \notin DOMAIN items.a[j].o
        /\ \E j \in DOMAIN items.a :
             /\ Truthy(Prop(items.a[j], "content"))
             /\ Prop(items.a[j], "content") # Prop(items.a[j], "description")

\* C7: a response that is a bare array is returned unchanged.
C7_BareArrayUnchanged ==
    \A i \in Settled :
        (fetches[i].resp.kind = "ok" /\ IsArray(fetches[i].resp.data))
        => /\ fetches[i].pc = "returned"
           /\ fetches[i].result = fetches[i].resp.data.a

\* A bare array of two articles, one without an id and one whose content
\* differs from its description, has been returned.
C7_Witness ==
    \E i \in Returned :
        LET data == fetches[i].resp.data IN
        /\ IsArray(data)
        /\ Len(data.a) = 2
        /\ \E j \in DOMAIN data.a : "id" \notin DOMAIN data.a[j].o
        /\ \E j \in DOMAIN data.a :
             Prop(data.a[j], "content") # Prop(data.a[j], "description")

\* The response has the shape {data: X}, X not an array.
HasDataNonArray(resp) ==
    /\ resp.kind = "ok"
    /\ resp.data.t = "obj"
    /\ "data" \in DOMAIN resp.data.o
    /\ ~IsArray(resp.data.o["data"])

\* The result is the one article x, its fields as received except for the
\* identifier id and the content, which is x's description.
IsSingleArticle(result, x, id) ==
    /\ Len(result) = 1
    /\ result[1].t = "obj"
    /\ Prop(result[1], "id") = id
    /\ Prop(result[1], "content") = Prop(x, "description")
    /\ OtherKeys(result[1]) = OtherKeys(x)
    /\ \A k \in OtherKeys(x) : result[1].o[k] = x.o[k]

\* C8 as stated: for every response {data: X}, X not an array, the call
\* returns the one article X, with X's id if present and "single-<millis>"
\* otherwise, and its content set from X's description.
C8_Original ==
    \A i \in Settled :
        LET x == Prop(fetches[i].resp.data, "data") IN
        HasDataNonArray(fetches[i].resp)
        => /\ fetches[i].pc = "returned"
           /\ x.t = "obj"
           /\ \E t \in 0..MaxNow :
                IsSingleArticle(fetches[i].result, x,
                    IF "id" \in DOMAIN x.o THEN x.o["id"]
                    ELSE JStr("single-" \o ToString(t)))

\* C8 as amended: for every response {data: X} where X is an object, the
\* call returns the one article X, with X's id if that is a non-empty
\* string and "single-<millis>" otherwise, and its content set from X's
\* description; where X is null or the empty string, the call returns the
\* whole payload as the single element.
C8_SingleArticle ==
    \A i \in Settled :
        LET x == Prop(fetches[i].resp.data, "data") IN
        HasDataNonArray(fetches[i].resp)
        => /\ fetches[i].pc = "returned"
           /\ x.t = "obj" =>
                \E t \in 0..MaxNow :
                    IsSingleArticle(fetches[i].result, x,
                        IF "id" \in DOMAIN x.o /\ x.o["id"] # JStr("")
                          THEN x.o["id"]
                          ELSE JStr("single-" \o ToString(t)))
           /\ x.t # "obj" => fetches[i].result = <<fetches[i].resp.data>>

\* A response {data: X} has been normalized for an X that carries its own
\* id and a content that differs from its description.
C8_Witness ==
    \E i \in Returned :
        LET x == Prop(fetches[i].resp.data, "data") IN
        /\ HasDataNonArray(fetches[i].resp)
        /\ x.t = "obj"
        /\ Truthy(Prop(x, "id"))
        /\ Truthy(Prop(x, "content"))
        /\ Prop(x, "content") # Prop(x, "description")

\* C9: a successful response whose payload is neither {data: ...} nor an
\* array is returned whole as the single element, and no successful response
\* is rejected for its shape.
C9_FallbackWrapsPayload ==
    \A i \in Settled :
        LET data == fetches[i].resp.data IN
        fetches[i].resp.kind = "ok"
        => /\ fetches[i].pc = "returned"
           /\ (~IsArray(data) /\ ~(data.t = "obj" /\ "data" \in DOMAIN data.o))
                => fetches[i].result = <<data>>

\* C10: the request carries a category, limit or offset parameter exactly
\* when the filter has that field, with the value given.
C10_ParamsIffPresent ==
    \A i \in DOMAIN fetches :
        LET options == fetches[i].options
            params == fetches[i].params
        IN \A k \in OptionKeys :
             /\ k \in DOMAIN options
                  <=> \E j \in DOMAIN params : params[j][1] = k
             /\ \A j \in DOMAIN params :
                  params[j][1] = k => params[j][2] = ParamValue(options[k])

\* C12: a fetchArticles call whose response has a non-successful status has
\* thrown to its caller and returned no article, whatever body the response
\* carries.
C12_BadStatusThrows ==
    \A i \in Settled :
        fetches[i].resp.kind = "status"
        => /\ fetches[i].pc = "threw"
           /\ fetches[i].result = <<>>

\* A call has settled on a response with status 500 whose body has the
\* shape of a feed.
C12_Witness ==
    \E i \in Settled :
        /\ fetches[i].resp.kind = "status"
        /\ fetches[i].resp.status = 500
        /\ IsArray(Prop(fetches[i].resp.data, "data"))
        /\ fetches[i].pc = "threw"

(***************************************************************************)
(* Properties of the summarization orchestrator.                           *)
(***************************************************************************)
BodyKeys == {"content", "title", "url", "source", "category"}

\* C1: a call whose first POST, with the flat body, got a non-successful
\* status has issued a second POST to the same endpoint, its body the same
\* five values nested under article, by the time it returns or throws (and
\* as soon as that response is in); a call whose first POST succeeded issues
\* no second POST.
C1_FallbackPost ==
    \A c \in DOMAIN calls :
        LET call == calls[c]
            first == call.posts[1]
        IN /\ first.body.t = "obj" /\ DOMAIN first.body.o \subseteq BodyKeys
           /\ call.responses # <<>> =>
               IF call.responses[1].kind = "status"
                 THEN /\ Len(call.posts) = 2
                      /\ call.posts[2].url = first.url
                      /\ call.posts[2].method = "POST"
                      /\ DOMAIN call.posts[2].body.o = {"article"}
                      /\ call.posts[2].body.o["article"] = first.body
                 ELSE Len(call.posts) = 1

\* A call has thrown after two non-successful responses, and its article
\* made the body fall back on the defaults of url, source and category.
C1_Witness ==
    \E c \in DOMAIN calls :
        /\ calls[c].pc = "threw"
        /\ Len(calls[c].responses) = 2
        /\ calls[c].responses[1].kind = "status"
        /\ calls[c].responses[2].kind = "status"
        /\ Prop(calls[c].posts[1].body, "source") = JStr("unknown")
        /\ Prop(calls[c].posts[1].body, "category") = JStr("general")

\* C13: a call that has thrown after two non-successful responses threw an
\* error that carries the status of the second response and the text of its
\* body.
C13_ErrorCarriesStatusAndText ==
    \A c \in DOMAIN calls :
        LET call == calls[c] IN
        (/\ call.pc = "threw"
         /\ Len(call.responses) = 2
         /\ call.responses[2].kind = "status")
        => \E v \in DOMAIN call.errorValues : \E w \in DOMAIN call.errorValues :
             /\ call.errorValues[v] = ToString(call.responses[2].status)
             /\ call.errorValues[w] = call.responses[2].text

\* The last response of a call that has settled on a successful response.
Answer(call) == call.responses[Len(call.responses)]

\* The five places of a response object where a summary is looked for, in
\* their order: the value found there, undefined where the place is absent.
SummaryPlaces(data) ==
    LET top(k) == IF data.t = "obj" /\ k \in DOMAIN data.o THEN data.o[k] ELSE JUndef
        under(k) == IF top(k).t = "obj" /\ "summary" \in DOMAIN top(k).o
                      THEN top(k).o["summary"] ELSE JUndef
    IN <<top("summary"), top("content"), top("result"), under("data"), under("response")>>

TokenAtHand ==
    IF TokenKey \in DOMAIN localStorage /\ localStorage[TokenKey] # ""
      THEN [has |-> TRUE, token |-> localStorage[TokenKey]]
    ELSE IF nhostToken.t = "str" /\ nhostToken.s # ""
      THEN [has |-> TRUE, token |-> nhostToken.s]
    ELSE [has |-> FALSE, token |-> ""]

\* C21: every POST of a call carries the header Authorization with the
\* value "Bearer <token>" if there is a token at hand and no Authorization
\* header if there is none, and the second POST of a call carries the
\* headers of the first.
C21_BearerIffToken ==
    \A c \in DOMAIN calls : \A k \in DOMAIN calls[c].posts :
        LET headers == calls[c].posts[k].headers IN
        /\ "Authorization" \in DOMAIN headers <=> TokenAtHand.has
        /\ TokenAtHand.has => headers["Authorization"] = "Bearer " \o TokenAtHand.token
        /\ headers = calls[c].posts[1].headers

\* A call has made both POSTs with the access token of nhost, the stored
\* token being empty.
C21_Witness ==
    \E c \in DOMAIN calls :
        /\ Len(calls[c].posts) = 2
        /\ TokenKey \in DOMAIN localStorage
        /\ localStorage[TokenKey] = ""
        /\ "Authorization" \in DOMAIN calls[c].posts[2].headers
        /\ calls[c].posts[2].headers["Authorization"] = "Bearer jwt2"

\* C25: a call whose first POST was rejected (a transport error) has thrown
\* after that one POST, and a call has made a second POST only after a
\* response with a non-successful status to the first.
C25_NoFallbackOnReject ==
    \A c \in DOMAIN calls :
        LET call == calls[c] IN
        /\ (call.responses # <<>> /\ call.responses[1].kind = "reject")
             => /\ call.pc = "threw"
                /\ Len(call.posts) = 1
                /\ Len(call.responses) = 1
        /\ Len(call.posts) > 1 => call.responses[1].kind = "status"

\* A call has thrown after its one POST was rejected.
C25_Witness ==
    \E c \in DOMAIN calls :
        /\ calls[c].pc = "threw"
        /\ Len(calls[c].posts) = 1
        /\ calls[c].responses[1].kind = "reject"
        /\ calls[c].error = "Failed to fetch"

(***************************************************************************)
(* Properties of the views.                                                *)
(***************************************************************************)
Awaiting(c) == c \in DOMAIN handlers /\ handlers[c].pc = "awaiting"
Failed(c) == c \in DOMAIN handlers /\ handlers[c].pc = "failed"

\* The error notifications shown for the summarize request c.
ErrorToasts(c) ==
    {t \in DOMAIN toasts :
        toasts[t].kind = "error" /\ toasts[t].op = "summarize" /\ toasts[t].n = c}

\* C2: every summarize request started from a view settles (again and again
\* no request is left awaiting); when it fails
\* (summarizeArticle throws, or the news feed gets no summary) the step that
\* fails it leaves isSummarizing false on the article of its identifier, and
\* exactly one error notification has been shown for it, none before.
C2_FailureResetsFlag ==
    /\ [](\A c \in DOMAIN handlers :
            /\ Failed(c) => Cardinality(ErrorToasts(c)) = 1
            /\ Awaiting(c) => ErrorToasts(c) = {})
    /\ [][\A c \in DOMAIN handlers :
            (Awaiting(c) /\ handlers'[c].pc = "failed")
            => \A q \in DOMAIN articles' :
                 SameId(articles'[q], handlers[c].articleId)
                 => Prop(articles'[q], "isSummarizing") = JBool(FALSE)]_vars
    /\ []<>(\A c \in DOMAIN handlers : ~Awaiting(c))

\* A request has failed after both of its POSTs got a non-successful
\* status, and its article is in the list with its flag back to false.
C2_Witness ==
    \E c \in DOMAIN handlers :
        /\ Failed(c)
        /\ calls[c].pc = "threw"
        /\ calls[c].sent = 2
        /\ \E t \in ErrorToasts(c) :
             toasts[t].msg = "Failed to summarize article: Error summarizing article: 500"
        /\ \E q \in DOMAIN articles :
             /\ SameId(articles[q], handlers[c].articleId)
             /\ Prop(articles[q], "isSummarizing") = JBool(FALSE)

\* The fields of an article other than the two a completion may write.
SameButSummary(before, after) ==
    /\ DOMAIN after.o = DOMAIN before.o
    /\ \A k \in DOMAIN before.o \ {"summary", "isSummarizing"} : after.o[k] = before.o[k]

\* C3: the completion of a summarize request changes the summary and
\* isSummarizing fields of one article, and no field of any other article
\* of the list.
C3_CompletionTouchesOneArticle ==
    [][\A c \in DOMAIN handlers :
        (Awaiting(c) /\ handlers'[c].pc # "awaiting")
        => /\ Len(articles') = Len(articles)
           /\ Cardinality({q \in DOMAIN articles : articles'[q] # articles[q]}) <= 1
           /\ \A q \in DOMAIN articles : SameButSummary(articles[q], articles'[q])]_vars

\* C4: at most one summarize request is outstanding for an article
\* identifier. Stated for the articles that have an identifier.
C4_OneRequestPerArticle ==
    \A c \in DOMAIN handlers : \A d \in DOMAIN handlers :
        (c # d /\ Awaiting(c) /\ Awaiting(d) /\ handlers[c].articleId.t = "str")
        => handlers[c].articleId # handlers[d].articleId

\* The error notifications shown for the load i.
LoadErrorToasts(i) ==
    {t \in DOMAIN toasts :
        /\ toasts[t].kind = "error" /\ toasts[t].op = "load" /\ toasts[t].n = i
        /\ toasts[t].msg \in {"Failed to fetch articles", "Failed to fetch saved articles"}}

\* C11: the step in which a feed load fails leaves the article list as it
\* was, adds one notification, the 'failed to fetch' error of that load, and
\* resets the loading flag; a load has exactly one such notification once it
\* has failed and none otherwise.
C11_FailedLoadKeepsList ==
    /\ [](\A i \in DOMAIN fetches :
            Cardinality(LoadErrorToasts(i)) = IF fetches[i].pc = "threw" THEN 1 ELSE 0)
    /\ [][\A i \in DOMAIN fetches :
            (fetches[i].pc = "pending" /\ fetches'[i].pc = "threw")
            => /\ articles' = articles
               /\ Len(toasts') = Len(toasts) + 1
               /\ SubSeq(toasts', 1, Len(toasts)) = toasts
               /\ Len(toasts') \in LoadErrorToasts(i)'
               /\ isLoading' = FALSE]_vars

\* A load has failed while the view held the batch of an earlier load, and
\* the view shows that batch, not loading.
C11_Witness ==
    \E i \in DOMAIN fetches :
        /\ i > 1
        /\ fetches[i].pc = "threw"
        /\ fetches[1].pc = "returned"
        /\ Len(articles) = 2
        /\ ~isLoading
        /\ LoadErrorToasts(i) # {}

\* C15: a fetchArticles call has issued one GET, while it is pending and
\* however it ended; a summarizeArticle call has issued one POST until its
\* first POST is answered, two POSTs if and only if that answer had a
\* non-successful status, and never more than two.
C15_RequestCounts ==
    /\ \A i \in DOMAIN fetches :
          IF fetches[i].pc = "pending" THEN fetches[i].gets = 1 ELSE fetches[i].sent = 1
    /\ \A c \in DOMAIN calls :
          CASE calls[c].pc = "post1" ->
                 Len(calls[c].posts) = 1 /\ calls[c].responses = <<>>
            [] calls[c].pc = "post2" ->
                 /\ Len(calls[c].posts) = 2
                 /\ Len(calls[c].responses) = 1
                 /\ calls[c].responses[1].kind = "status"
            [] OTHER ->
                 /\ calls[c].sent \in {1, 2}
                 /\ calls[c].sent = 2 <=> calls[c].first = "status"

\* A load has failed after its one GET, and a summarize call has returned
\* after its second POST, the first having been answered with a
\* non-successful status.
C15_Witness ==
    /\ \E i \in DOMAIN fetches : fetches[i].pc = "threw" /\ fetches[i].sent = 1
    /\ \E c \in DOMAIN calls :
          /\ calls[c].pc = "returned"
          /\ calls[c].sent = 2
          /\ calls[c].first = "status"

\* The updates by identifier that the summarize handler applies to the list:
\* the flag set, the flag reset, the summary assigned.
SummarizeUpdates ==
    {[isSummarizing |-> JBool(TRUE)],
     [isSummarizing |-> JBool(FALSE)],
     [summary |-> JStr("s"), isSummarizing |-> JBool(FALSE)]}

\* C16: on the list the view holds, each update of a handler for the
\* identifier of an article of the list (mark as read in the news feed, the
\* flag set and reset, the summary assigned) leaves the articles of other
\* identifiers as they are, and applied twice in succession gives the list
\* that applying it once gives.
C16_UpdatesIdempotent ==
    \A pos \in DOMAIN articles :
        LET articleId == Prop(articles[pos], "id")
            once == MarkAsRead(articles, articleId)
        IN /\ view = "NewsFeed" =>
                /\ \A q \in DOMAIN articles :
                     ~SameId(articles[q], articleId) => once[q] = articles[q]
                /\ MarkAsRead(once, articleId) = once
           /\ \A over \in SummarizeUpdates :
                LET set == UpdateById(articles, articleId, over) IN
                /\ \A q \in DOMAIN articles :
                     ~SameId(articles[q], articleId) => set[q] = articles[q]
                /\ UpdateById(set, articleId, over) = set

\* C17: in the news feed the request of the mount is the unfiltered one; a
\* step that selects a category from none issues a request with that
\* category as its one parameter; a step that clears the selected category
\* (the Clear Filter button, or the selected category clicked again) leaves
\* selectedCategory empty and issues a request without parameters, to the
\* URL of the request of the mount.
C17_ClearRestoresUnfiltered ==
    /\ [](view = "NewsFeed" => fetches[1].url = ArticleEndpoint)
    /\ [][view = "NewsFeed" =>
            /\ (selectedCategory = "" /\ selectedCategory' # "")
                 => /\ Len(fetches') = Len(fetches) + 1
                    /\ fetches'[Len(fetches')].pc = "pending"
                    /\ fetches'[Len(fetches')].params
                         = <<(<<"category", selectedCategory'>>)>>
            /\ (selectedCategory # "" /\ selectedCategory' = "")
                 => /\ Len(fetches') = Len(fetches) + 1
                    /\ fetches'[Len(fetches')].pc = "pending"
                    /\ fetches'[Len(fetches')].params = <<>>
                    /\ fetches'[Len(fetches')].url = fetches[1].url]_vars

\* The category sports has been selected and cleared again: the second
\* request carried it, the third is the request of the mount again.
C17_Witness ==
    /\ view = "NewsFeed"
    /\ Len(fetches) = 3
    /\ selectedCategory = ""
    /\ fetches[2].url = ArticleEndpoint \o "?category=sports"
    /\ fetches[3].url = fetches[1].url

\* The article carries the state of a fresh article of the news feed.
Fresh(article) ==
    /\ Prop(article, "is_read") = JBool(FALSE)
    /\ Prop(article, "is_saved") = JBool(FALSE)
    /\ Prop(article, "isSummarizing") = JBool(FALSE)
    /\ Prop(article, "summary") = JStr("")

\* C20: the step in which a load of the news feed succeeds leaves a list of
\* one batch in which every article is unread, unsaved, not summarizing and
\* without a summary, whatever the list held before.
C20_LoadResetsList ==
    [][\A i \in DOMAIN fetches :
        (view = "NewsFeed" /\ fetches[i].pc = "pending" /\ fetches'[i].pc = "returned")
        => /\ Len(articles') <= MaxItems
           /\ \A q \in DOMAIN articles' : Fresh(articles'[q])]_vars

\* The second load of the news feed has succeeded after an article of the
\* first batch had been marked as read, and no article is read.
C20_Witness ==
    /\ view = "NewsFeed"
    /\ clicks = 2
    /\ Len(fetches) = 2
    /\ fetches[2].pc = "returned"
    /\ \E t \in DOMAIN toasts : toasts[t].op = "read"
    /\ articles # <<>>
    /\ \A q \in DOMAIN articles : Fresh(articles[q])

InFlight == {i \in DOMAIN fetches : fetches[i].pc = "pending"}

\* C22: in the news feed, the response to a fetch that returns after a
\* fetch issued later (for the category selected since) has returned does
\* not change the article list shown.
C22_StaleResponseKeepsList ==
    [][view = "NewsFeed" =>
        \A i \in InFlight :
            (/\ fetches'[i].pc = "returned"
             /\ \E j \in DOMAIN fetches : j > i /\ fetches[j].pc = "returned")
            => articles' = articles]_vars

\* C24: in the news feed, isLoading is true in every state in which a feed
\* fetch is in flight.
C24_LoadingWhileInFlight ==
    (view = "NewsFeed" /\ InFlight # {}) => isLoading

\* C23: in every state of the news feed, an article has isSummarizing true
\* if and only if a summarize request issued for its identifier is
\* outstanding, a reload of the list while a request is in flight included.
\* Stated for the articles that have an identifier.
C23_FlagIffOutstanding ==
    view = "NewsFeed" =>
        \A q \in DOMAIN articles :
            Prop(articles[q], "id").t = "str" =>
                (Prop(articles[q], "isSummarizing") = JBool(TRUE)
                 <=> \E c \in DOMAIN handlers :
                       Awaiting(c) /\ handlers[c].articleId = Prop(articles[q], "id"))

\* C26: in the news feed no 'Generating summary...' toast is still a
\* loading toast once its summarize request has settled: the handler has
\* replaced it, under its id, by a success or an error toast.
C26_LoadingToastReplaced ==
    view = "NewsFeed" =>
        \A c \in DOMAIN handlers :
            ~Awaiting(c) => toasts[handlers[c].toastId].kind \in {"success", "error"}

\* The summary fields of a list, in order.
Summaries(list) == [q \in DOMAIN list |-> Prop(list[q], "summary")]

\* C27: in the news feed, when summarizeArticle returns an empty value or
\* "No summary available", no article's summary changes, the articles of
\* the request's identifier have isSummarizing false and the request's
\* toast is an error toast; and whenever a summarize completion changes an
\* article's summary, the new value is non-empty and is not "No summary
\* available".
C27_NoSummaryKeepsSummary ==
    [][view = "NewsFeed" =>
        \A c \in DOMAIN handlers :
            (Awaiting(c) /\ ~Awaiting(c)') =>
                /\ (calls'[c].pc = "returned" /\ Failed(c)') =>
                      /\ Summaries(articles') = Summaries(articles)
                      /\ \A q \in DOMAIN articles' :
                            SameId(articles'[q], handlers[c].articleId) =>
                                Prop(articles'[q], "isSummarizing") = JBool(FALSE)
                      /\ toasts'[handlers[c].toastId].kind = "error"
                /\ \A q \in DOMAIN articles' :
                      Prop(articles'[q], "summary") # Prop(articles[q], "summary") =>
                          ~NoSummary(Prop(articles'[q], "summary"))]_vars

\* A news feed request has ended with no summary returned, on an article
\* that holds the summary of an earlier request.
C27_Witness ==
    /\ view = "NewsFeed"
    /\ \E c \in DOMAIN handlers :
          /\ Failed(c)
          /\ calls[c].pc = "returned"
          /\ toasts[handlers[c].toastId].kind = "error"
          /\ \E q \in DOMAIN articles :
                /\ SameId(articles[q], handlers[c].articleId)
                /\ Prop(articles[q], "summary") = JStr("s")
                /\ Prop(articles[q], "isSummarizing") = JBool(FALSE)

\* A step of handleMarkAsRead: its notification is added.
MarksAsRead ==
    toasts' = Append(toasts, Toast("success", "Article marked as read", "read", 0))

\* The two articles differ in the is_read field at most.
SameButRead(before, after) ==
    /\ DOMAIN after.o = DOMAIN before.o
    /\ \A k \in DOMAIN before.o \ {"is_read"} : after.o[k] = before.o[k]

\* C29: handleMarkAsRead changes the is_read field of one article, the one
\* of the given identifier: every other article and every other field of
\* that article stay as they are, and so do the length and the order of
\* the list.
C29_MarkTouchesOneArticle ==
    [][MarksAsRead =>
        /\ Len(articles') = Len(articles)
        /\ Cardinality({q \in DOMAIN articles : articles'[q] # articles[q]}) = 1
        /\ \A q \in DOMAIN articles : SameButRead(articles[q], articles'[q])]_vars

(***************************************************************************)
(* Properties of signing out.                                              *)
(***************************************************************************)
\* The handleSignOut invocations that go on from their await in this step.
Resuming == {i \in DOMAIN signOuts : signOuts[i].pc = "awaiting" /\ signOuts'[i].pc = "ended"}

\* C30: when handleSignOut goes on after a signOut without an error, the
\* token and the expiry are no longer stored, the page is /login, and
\* getToken does not return the token that was stored; when it goes on
\* after a signOut with an error or a rejected one, the storage and the
\* page are as before; and no other step removes the stored token or
\* enters /login.
C30_SignOutRemovesToken ==
    [][/\ \A i \in Resuming :
            IF signOuts'[i].outcome = "ok"
              THEN /\ TokenKey \notin DOMAIN localStorage'
                   /\ ExpiryKey \notin DOMAIN localStorage'
                   /\ view' = "Login"
                   /\ TokenKey \in DOMAIN localStorage =>
                         GetToken(localStorage', nhostToken') # JStr(localStorage[TokenKey])
              ELSE /\ localStorage' = localStorage
                   /\ view' = view
       /\ (\/ \E k \in {TokenKey, ExpiryKey} :
                 k \in DOMAIN localStorage /\ k \notin DOMAIN localStorage'
           \/ view' = "Login" /\ view # "Login")
          => \E i \in Resuming : signOuts'[i].outcome = "ok"]_vars

\* One sign-out has failed, leaving the token and the page, and a later
\* one has succeeded: nothing is stored, getToken returns no token, and
\* the page is /login.
C30_Witness ==
    /\ \E i \in DOMAIN signOuts : \E j \in DOMAIN signOuts :
          /\ i < j
          /\ signOuts[i] = [pc |-> "ended", outcome |-> "error"]
          /\ signOuts[j] = [pc |-> "ended", outcome |-> "ok"]
    /\ \A i \in DOMAIN signOuts : signOuts[i].pc = "ended"
    /\ localStorage = [k \in {} |-> ""]
    /\ GetToken(localStorage, nhostToken) = JUndef
    /\ view = "Login"

(***************************************************************************)
(* Properties of the sentiment classifier.                                 *)
(***************************************************************************)
\* Two characters are the same letter in whatever case.
SameLetter(c, d) ==
    \/ c = d
    \/ \E i \in DOMAIN LowerLetters : {c, d} = {LowerLetters[i], UpperLetters[i]}

\* The keyword occurs in the text, letter by letter in whatever case.
Occurs(word, text) ==
    \E i \in 0..(Len(text) - Len(word)) :
        \A j \in 1..Len(word) : SameLetter(text[i + j], word[j])

\* How many keywords of the list occur in the text.
KeywordCount(words, text) ==
    Cardinality({w \in DOMAIN words : Occurs(words[w], text)})

\* The description and the sentiment of the article at position q.
Described(q) == TextOf(Prop(articles[q], "description").s)
Sentiment(q) == Prop(articles[q], "sentiment").s

\* C18: every article shown has the sentiment positive if more keywords of
\* the positive list than of the negative list occur in its description,
\* negative if more of the negative list occur, and neutral if as many do
\* (none of either included), the letters compared in whatever case; two
\* articles whose descriptions differ in case only have the same sentiment.
C18_SentimentByCounts ==
    /\ \A q \in DOMAIN articles :
          LET positiveCount == KeywordCount(positiveWords, Described(q))
              negativeCount == KeywordCount(negativeWords, Described(q))
          IN Sentiment(q) =
               CASE positiveCount > negativeCount -> "positive"
                 [] negativeCount > positiveCount -> "negative"
                 [] OTHER -> "neutral"
    /\ \A q \in DOMAIN articles : \A r \in DOMAIN articles :
          (/\ Len(Described(q)) = Len(Described(r))
           /\ \A i \in DOMAIN Described(q) : SameLetter(Described(q)[i], Described(r)[i]))
          => Sentiment(q) = Sentiment(r)

\* A text with one keyword of each list and its upper-case form are both
\* neutral.
C18_Witness ==
    /\ Len(articles) = 2
    /\ Prop(articles[1], "description") = JStr("gain dive")
    /\ Prop(articles[2], "description") = JStr("GAIN DIVE")
    /\ Sentiment(1) = "neutral"
    /\ Sentiment(2) = "neutral"

\* The keywords of each list that occur in the description of the article
\* at position q.
Occurring(q) ==
    <<{w \in DOMAIN positiveWords : Occurs(positiveWords[w], Described(q))},
      {w \in DOMAIN negativeWords : Occurs(negativeWords[w], Described(q))}>>

\* C28: for every article shown, the count the classifier takes for a list
\* is the number of keywords of the list that occur in the description,
\* once each however often they occur and inside longer words too, and is
\* at most the length of the list, 7 positive and 8 negative; two articles
\* in whose descriptions the same keywords occur have the same sentiment.
C28_CountsDistinctKeywords ==
    /\ Len(positiveWords) = 7
    /\ Len(negativeWords) = 8
    /\ \A q \in DOMAIN articles :
          LET lowered == toLowerCase(Described(q)) IN
          /\ MatchCount(positiveWords, lowered) = Cardinality(Occurring(q)[1])
          /\ MatchCount(negativeWords, lowered) = Cardinality(Occurring(q)[2])
          /\ MatchCount(positiveWords, lowered) <= Len(positiveWords)
          /\ MatchCount(negativeWords, lowered) <= Len(negativeWords)
    /\ \A q \in DOMAIN articles : \A r \in DOMAIN articles :
          Occurring(q) = Occurring(r) => Sentiment(q) = Sentiment(r)

\* A text with a keyword inside a longer word and a keyword of the other
\* list, and the same text with the first word twice, are both neutral.
C28_Witness ==
    /\ Len(articles) = 2
    /\ Prop(articles[1], "description") = JStr("supply dive")
    /\ Prop(articles[2], "description") = JStr("supply supply dive")
    /\ Occurring(1) = <<{6}, {2}>>
    /\ Occurring(2) = Occurring(1)
    /\ Sentiment(1) = "neutral"
    /\ Sentiment(2) = "neutral"

\* C19: the article described "stocks surge on growth" is positive, the one
\* described "markets plunge amid backlash" negative, the one described
\* "quarterly report released" neutral.
C19_Examples ==
    \A q \in DOMAIN articles :
        LET description == Prop(articles[q], "description") IN
        /\ description = JStr("stocks surge on growth") => Sentiment(q) = "positive"
        /\ description = JStr("markets plunge amid backlash") => Sentiment(q) = "negative"
        /\ description = JStr("quarterly report released") => Sentiment(q) = "neutral"

\* The three example texts have been classified in one batch.
C19_Witness ==
    /\ Len(articles) = 3
    /\ \A q \in DOMAIN articles : Prop(articles[q], "description") = JStr(Examples[q])
    /\ <<Sentiment(1), Sentiment(2), Sentiment(3)>> = <<"positive", "negative", "neutral">>

====
